---- MODULE Spec2Model ----
(***************************************************************************)
(* Loan underwriting application: the submit flow of app.py, the staged    *)
(* multi-agent pipeline and its scoring fallback of                        *)
(* agent_bricks_integration.py, and the query layer of                     *)
(* databricks_connection.py.                                               *)
(*                                                                         *)
(* Numbers.  Money, credit scores and percentages are integers.  Interest  *)
(* rates and confidences are held in hundredths (4.25 is 425, 0.85 is 85). *)
(* Risk scores are exact fractions [n, d] in lowest terms, so that the     *)
(* division loan_amount / income keeps its value.                          *)
(***************************************************************************)
EXTENDS Integers, Sequences, FiniteSets, TLC

VARIABLES
    caller,             \* who runs the engine: the form of app.py or test_multi_agent.py
    applicant_name,     \* form field
    age,                \* form field
    application_data,   \* the scoring fields of the application dictionary
    pc,                 \* position of the single execution path
    engine,             \* which branch of call_agent_bricks_endpoint produced the result
    processing_results, \* MultiAgentLoanUnderwriter.processing_results
    calls,              \* history: stage methods invoked, in order
    report,             \* value returned by process_loan_application
    final_decision,     \* local of agent_bricks_underwrite
    risk_score,         \* local of agent_bricks_underwrite
    agent_results,      \* local of agent_bricks_underwrite
    rescaled,           \* history: times line 296 was applied
    fallbacks,          \* history: times the except block ran
    result,             \* the decision dictionary handed back to the caller
    databricks_connected,   \* app.py main: what initialize_databricks() returned
    application_id,     \* app.py main: the id the save returned; 0 is None
    save_calls,         \* history: calls of save_loan_application by the submit handler
    endpoint,           \* locals of the running call_agent_bricks_endpoint
    credentials_available,      \* DatabricksManager.credentials_available
    is_databricks_environment,  \* DatabricksManager.is_databricks_environment
    sql_connection,     \* DatabricksManager.sql_connection: 0 is None, else a connection
    connections,        \* every connection sql.connect has returned: id -> "open" / "closed"
    eq_pc,              \* position inside execute_query
    retry_count,        \* parameter of the running execute_query
    attempt,            \* loop variable of execute_query
    attempts,           \* history: the attempts of the running execute_query
    queries,            \* history: calls of execute_query begun so far
    loan_applications,  \* the rows of the Delta table loan_applications, in insertion order
    catalog_objects,    \* the catalog, schema and tables that exist in the warehouse
    next_uuid,          \* history: identifiers uuid.uuid4() has handed out
    today,              \* the calendar day, counted from the first day of the run
    op,                 \* the store operation in progress, with its arguments
    op_step,            \* which query of the operation runs; 0 when none does
    dfs,                \* the DataFrames execute_query has returned to the operation
    op_result,          \* what the operation handed to its caller
    ops,                \* history: store operations begun so far
    saved,              \* history: the arguments of each save that returned its id
    faults,             \* history: failures the warehouse or the network has dealt
    global_manager,     \* module global _databricks_manager: 0 is None, else an instance
    managers,           \* every DatabricksManager constructed: instance -> its sql_connection
    threads,            \* concurrent requests: thread -> position and locals
    scored              \* history: the calls of the scoring functions and what they returned

uwvars == <<caller, applicant_name, age, application_data, pc, engine,
            processing_results, calls, report, final_decision, risk_score,
            agent_results, rescaled, fallbacks, result, databricks_connected,
            application_id, save_calls, endpoint>>

dbvars == <<credentials_available, is_databricks_environment, sql_connection,
            connections, eq_pc, retry_count, attempt, attempts, queries,
            loan_applications, catalog_objects, next_uuid, today, op, op_step, dfs,
            op_result, ops, saved, faults>>

\* the table, its clock and the failures dealt so far
tablevars == <<loan_applications, catalog_objects, today, faults>>

\* the operation in progress
opvars == <<next_uuid, op, op_step, dfs, op_result, ops, saved>>

\* requests that run at the same time on the shared module global
ccvars == <<global_manager, managers, threads>>

\* direct calls of the scoring functions
scvars == <<scored>>

vars == <<uwvars, dbvars, ccvars, scvars>>

-----------------------------------------------------------------------------
(* Input domains *)

Names == {"", "   ", "John Doe"}
Ages == {17, 35}
CreditScores == {300, 620, 649, 650, 750, 850}
Incomes == {0, 1, 40000, 45000, 80000}
LoanAmounts == {1000, 150000, 200000, 10000000}
DebtRatios == {0, 25, 40, 41, 45}
ProcessingTimes == {0, 45}

Applications ==
    [credit_score : CreditScores, annual_income : Incomes,
     loan_amount : LoanAmounts, debt_to_income_ratio : DebtRatios]

\* the scoring fields of the two applications of test_multi_agent.py
LoanApp750 ==
    [credit_score |-> 750, annual_income |-> 80000,
     loan_amount |-> 200000, debt_to_income_ratio |-> 25]

LoanApp620 ==
    [credit_score |-> 620, annual_income |-> 45000,
     loan_amount |-> 150000, debt_to_income_ratio |-> 45]

\* form values outside the ranges the submit handler checks
\* an application whose mock risk score, 100400, no DECIMAL(5,2) column holds
LoanApp300 ==
    [credit_score |-> 300, annual_income |-> 1,
     loan_amount |-> 1000, debt_to_income_ratio |-> 0]

OutOfRangeApplications ==
    {[credit_score |-> 299, annual_income |-> 80000,
      loan_amount |-> 200000, debt_to_income_ratio |-> 25],
     [credit_score |-> 851, annual_income |-> 80000,
      loan_amount |-> 200000, debt_to_income_ratio |-> 25],
     [credit_score |-> 750, annual_income |-> 80000,
      loan_amount |-> 999, debt_to_income_ratio |-> 25]}

-----------------------------------------------------------------------------
(* Exact fractions *)

Abs(x) == IF x < 0 THEN -x ELSE x

RECURSIVE GCD(_, _)
GCD(a, b) == IF b = 0 THEN a ELSE GCD(b, a % b)

Frac(n, d) ==
    LET g == GCD(Abs(n), d) IN [n |-> n \div g, d |-> d \div g]

FracInt(k) == [n |-> k, d |-> 1]

FracLess(a, b) == a.n * b.d < b.n * a.d

\* Python's max(a, b) and min(a, b): the first argument wins a tie.
PyMax(a, b) == IF FracLess(a, b) THEN b ELSE a
PyMin(a, b) == IF FracLess(b, a) THEN b ELSE a

\* dict.get(key, default)
Get(d, key, default) == IF key \in DOMAIN d THEN d[key] ELSE default

\* An interest rate value: a number (hundredths of a percent point) or None.
Num(x) == [tag |-> "num", val |-> x]
None == [tag |-> "none", val |-> 0]

IntMax(a, b) == IF a >= b THEN a ELSE b

-----------------------------------------------------------------------------
(* Scoring: agent_bricks_integration.py, calculate_risk_score and          *)
(* make_underwriting_decision; app.py, create_mock_underwriting_decision   *)

\* the four application_data.get(key, default) with which both scoring
\* functions and the mock begin; no other key of the dictionary is read
ScoringFieldsWithAge(d) ==
    [credit_score         |-> Get(d, "credit_score", 650),
     annual_income        |-> Get(d, "annual_income", 0),
     loan_amount          |-> Get(d, "loan_amount", 0),
     debt_to_income_ratio |-> Get(d, "age", 25)]

ScoringFields(d) ==
    [credit_score         |-> Get(d, "credit_score", 650),
     annual_income        |-> Get(d, "annual_income", 0),
     loan_amount          |-> Get(d, "loan_amount", 0),
     debt_to_income_ratio |-> Get(d, "debt_to_income_ratio", 25)]

\* base_risk + income_risk + debt_risk, before the clamp
total_risk(a) ==
    IF a.annual_income > 0
    THEN Frac((700 - a.credit_score + a.debt_to_income_ratio * 2) * a.annual_income
                  + a.loan_amount * 100,
              a.annual_income)
    ELSE FracInt(700 - a.credit_score + 100 + a.debt_to_income_ratio * 2)

\* variant: the clamp of line 385 left out
calculate_risk_score_unclamped(a) == total_risk(a)

\* min(max(total_risk, 300), 850)
calculate_risk_score(a) ==
    PyMin(PyMax(total_risk(a), FracInt(300)), FracInt(850))

\* variant: the income has to exceed the fifth of the loan amount
IncomeCoversStrictly(income, loan_amount) == 5 * income > loan_amount

\* income >= loan_amount * 0.2.  The double nearest to 0.2 exceeds 0.2 by
\* the factor 1 + 2^-54, less than half a unit in the last place of any
\* integer product below 2^53, so for integer amounts the comparison comes
\* out as the exact one does.
IncomeCovers(income, loan_amount) == 5 * income >= loan_amount

\* variant: the rate without its floor
ApprovedRateUnclamped(credit_score) == 800 - 2 * (credit_score - 600)

\* max(3.5, 8.0 - (credit_score - 600) / 50), in hundredths
ApprovedRate(credit_score) == IntMax(350, 800 - 2 * (credit_score - 600))

\* variant: the three checks chained with elif, so that a rejection names
\* only the first criterion that failed
make_underwriting_decision_first_reason(a, rs) ==
    IF /\ a.credit_score >= 650
       /\ IncomeCovers(a.annual_income, a.loan_amount)
       /\ a.debt_to_income_ratio <= 40
    THEN [status |-> "approved",
          amount |-> a.loan_amount,
          rate   |-> Num(ApprovedRate(a.credit_score)),
          reason |-> <<"Approved: Good credit score">>]
    ELSE [status |-> "rejected",
          amount |-> 0,
          rate   |-> Num(0),
          reason |-> <<"Rejected: ">>
                     \o (IF a.credit_score < 650
                         THEN <<"Credit score too low">>
                         ELSE IF ~IncomeCovers(a.annual_income, a.loan_amount)
                         THEN <<"Insufficient income relative to loan amount">>
                         ELSE <<"High debt-to-income ratio">>)]

make_underwriting_decision(a, rs) ==
    IF /\ a.credit_score >= 650
       /\ IncomeCovers(a.annual_income, a.loan_amount)
       /\ a.debt_to_income_ratio <= 40
    THEN [status |-> "approved",
          amount |-> a.loan_amount,
          rate   |-> Num(ApprovedRate(a.credit_score)),
          reason |-> <<"Approved: Good credit score">>]
    ELSE [status |-> "rejected",
          amount |-> 0,
          rate   |-> Num(0),
          reason |-> <<"Rejected: ">>
                     \o (IF a.credit_score < 650
                         THEN <<"Credit score too low">> ELSE <<>>)
                     \o (IF ~IncomeCovers(a.annual_income, a.loan_amount)
                         THEN <<"Insufficient income relative to loan amount">>
                         ELSE <<>>)
                     \o (IF a.debt_to_income_ratio > 40
                         THEN <<"High debt-to-income ratio">> ELSE <<>>)]

\* 700 - credit_score + (debt_to_income * 2) + (loan_amount / income * 100 if income > 0 else 100)
mock_risk_score(a) ==
    IF a.annual_income > 0
    THEN Frac((700 - a.credit_score + a.debt_to_income_ratio * 2) * a.annual_income
                  + a.loan_amount * 100,
              a.annual_income)
    ELSE FracInt(700 - a.credit_score + a.debt_to_income_ratio * 2 + 100)

create_mock_underwriting_decision(a) ==
    IF /\ a.credit_score >= 650
       /\ IncomeCovers(a.annual_income, a.loan_amount)
       /\ a.debt_to_income_ratio <= 40
    THEN [decision        |-> "approved",
          approved_amount |-> a.loan_amount,
          interest_rate   |-> Num(ApprovedRate(a.credit_score)),
          risk_score      |-> mock_risk_score(a),
          reasoning       |-> <<"Good credit score">>,
          processing_time |-> 230]
    ELSE [decision        |-> "rejected",
          approved_amount |-> 0,
          interest_rate   |-> None,
          risk_score      |-> mock_risk_score(a),
          reasoning       |-> (IF a.credit_score < 650
                               THEN <<"Credit score too low">> ELSE <<>>)
                              \o (IF ~IncomeCovers(a.annual_income, a.loan_amount)
                                  THEN <<"Insufficient income relative to loan amount">>
                                  ELSE <<>>)
                              \o (IF a.debt_to_income_ratio > 40
                                  THEN <<"High debt-to-income ratio">> ELSE <<>>),
          processing_time |-> 230]

-----------------------------------------------------------------------------
(* The staged pipeline: MultiAgentLoanUnderwriter *)

Stages == <<"document_extractor", "credit_analyzer", "compliance_checker", "decision_maker">>

\* the key of processing_results each stage writes
ResultKey(agent) ==
    CASE agent = "document_extractor" -> "document_extraction"
      [] agent = "credit_analyzer"    -> "credit_analysis"
      [] agent = "compliance_checker" -> "compliance_check"
      [] agent = "decision_maker"     -> "final_decision"

\* _get_mock_responses().get(agent_name, {}); 0.25 is Frac(25, 100), 4.25 is 425
MockResponse(agent) ==
    CASE agent = "document_extractor" ->
           [summary |-> "Financial documents processed successfully"]
      [] agent = "credit_analyzer" ->
           [risk_level |-> "Low", risk_score |-> Frac(25, 100)]
      [] agent = "compliance_checker" ->
           [status |-> "Passed"]
      [] agent = "decision_maker" ->
           [decision        |-> "Approved",
            approved_amount |-> 280000,
            interest_rate   |-> Num(425),
            reasoning       |-> <<"Applicant meets all qualification criteria">>]
      [] OTHER -> [none |-> TRUE]

call_agent_endpoint(agent) ==
    [agent_name |-> agent,
     status     |-> "success",
     data       |-> MockResponse(agent),
     confidence |-> 85]

_generate_underwriting_report(loan_app, results) ==
    LET decision_data == results["final_decision"].data IN
    [application_id |-> loan_app.customer_id,
     extracted_data |-> results["document_extraction"].data,
     risk_assessment |->
        [risk_level |-> Get(results["credit_analysis"].data, "risk_level", "Medium"),
         risk_score |-> Get(results["credit_analysis"].data, "risk_score", Frac(5, 10))],
     compliance |->
        [status |-> Get(results["compliance_check"].data, "status", "Passed")],
     decision |->
        [status          |-> Get(decision_data, "decision", "Approved"),
         approved_amount |-> Get(decision_data, "approved_amount", loan_app.loan_amount),
         interest_rate   |-> Get(decision_data, "interest_rate", Num(550)),
         reasoning       |-> Get(decision_data, "reasoning", <<"Standard approval">>)],
     confidence_scores |->
        [k \in DOMAIN results |-> results[k].confidence]]

\* str.lower() on the two strings the code lowers
Lower(str) ==
    CASE str = "Approved" -> "approved"
      [] str = "Low"      -> "low"
      [] OTHER            -> str

\* variant: the conversion to the 300-850 scale applied to its own result
RescaleTwice(v) == Frac(300 * v.d + (300 * v.d + v.n * 550) * 550, v.d)

\* 300 + (risk_score_normalized * 550)
Rescale(v) == Frac(300 * v.d + v.n * 550, v.d)

-----------------------------------------------------------------------------
(* State of one run *)

NoValue == [none |-> TRUE]

\* LoanApplication(...) built from the dictionary; the decision only reads these
LoanApp(a) ==
    [customer_id   |-> "CUST_time",
     credit_score  |-> a.credit_score,
     annual_income |-> a.annual_income,
     loan_amount   |-> a.loan_amount]

\* app.py 188-199: the dictionary the form hands to the engine and the store
ApplicationDict(name, ag, a) ==
    [applicant_name        |-> name,
     age                   |-> ag,
     annual_income         |-> a.annual_income,
     credit_score          |-> a.credit_score,
     loan_amount           |-> a.loan_amount,
     debt_to_income_ratio  |-> a.debt_to_income_ratio]

\* a fraction rounded half up to two decimals, in hundredths; the whole part
\* is split off first so that the product stays small
ToHundredths(f) ==
    LET whole == f.n \div f.d
        rem   == f.n % f.d
    IN whole * 100 + (rem * 200 + f.d) \div (2 * f.d)

\* DECIMAL(5,2) holds three digits before the point
FitsDecimal52(f) ==
    LET whole == f.n \div f.d
    IN /\ whole > -1000
       /\ whole < 1000
       /\ Abs(ToHundredths(f)) < 100000

\* variant: the column keeps the value it is given
StoreRiskScoreExact(f, ansi) == [tag |-> "ok", val |-> f]

\* risk_score DECIMAL(5,2): the value is rounded to the column's scale; one
\* that does not fit fails the statement under ANSI mode and is stored as
\* NULL otherwise.  The stored value is exact again as a fraction.
StoreRiskScore(f, ansi) ==
    IF FitsDecimal52(f) THEN [tag |-> "ok", val |-> Frac(ToHundredths(f), 100)]
    ELSE IF ansi THEN [tag |-> "overflow", val |-> f]
    ELSE [tag |-> "null", val |-> f]

\* lines 340-359: the parameters of the INSERT, as the columns of lines
\* 263-284 keep them.  Whole amounts, percentages and hundredths of a second
\* or of a percent fit their DECIMAL(_,2) columns unchanged.
InsertedRow(id, app, decision, now, ansi) ==
    LET rs == StoreRiskScore(decision.risk_score, ansi) IN
    [application_id          |-> id,
     applicant_name          |-> app.applicant_name,
     age                     |-> app.age,
     annual_income           |-> app.annual_income,
     credit_score            |-> app.credit_score,
     loan_amount             |-> app.loan_amount,
     debt_to_income_ratio    |-> app.debt_to_income_ratio,
     decision                |-> decision.decision,
     decision_reason         |-> Get(decision, "reasoning", <<>>),
     approved_amount         |-> decision.approved_amount,
     interest_rate           |-> decision.interest_rate,
     risk_score              |-> IF rs.tag = "ok" THEN rs.val ELSE None,
     application_timestamp   |-> now,
     processing_time_seconds |-> Get(decision, "processing_time", 0)]

\* the INSERT cannot be carried out: a value does not fit its column
InsertOverflows(decision, ansi) ==
    StoreRiskScore(decision.risk_score, ansi).tag = "overflow"

\* no store operation is running; nothing was handed to a caller
\* lines 252-302: what create_schema_if_not_exists creates
AllObjects == {"catalog", "schema", "loan_applications", "loan_analytics"}

NoOp == [name |-> "none"]

NoResult == [kind |-> "none"]

\* the requests that use the store at the same time
Threads == {1, 2}

\* a request before its call of get_databricks_manager()
ThreadStart == [pc |-> "start", manager |-> 0, connection |-> 0, application_id |-> 0]

\* no operation of the manager is running; the table holds one record for
\* each save of an earlier run, which returned the ids 1, 2, ...
StoreAtRest(earlier) ==
    /\ eq_pc = "idle"
    /\ retry_count = 0
    /\ attempt = 0
    /\ attempts = <<>>
    /\ loan_applications =
          [i \in DOMAIN earlier |->
              InsertedRow(i, earlier[i].app, earlier[i].decision, 0, TRUE)]
    /\ next_uuid = Len(earlier)
    /\ today = 0
    /\ op = NoOp
    /\ op_step = 0
    /\ dfs = <<>>
    /\ op_result = NoResult
    /\ ops = 0
    /\ saved = {[application_id   |-> i,
                 application_data |-> earlier[i].app,
                 decision_result  |-> earlier[i].decision] : i \in DOMAIN earlier}
    /\ faults = 0
    /\ global_manager = 0
    /\ managers = <<>>
    /\ threads = [t \in Threads |-> ThreadStart]

\* the store with an empty table
StoreIdle == StoreAtRest(<<>>)

\* DatabricksManager.__init__: no connection is held
FreshManager ==
    /\ credentials_available \in BOOLEAN
    /\ is_databricks_environment \in BOOLEAN
    /\ sql_connection = 0
    /\ connections = <<>>
    /\ queries = 0

\* no call of call_agent_bricks_endpoint is running
NoEndpoint == [route |-> "none", requests |-> 0, outcome |-> "none"]

\* the store before its first use
InitStore ==
    /\ FreshManager
    /\ StoreIdle

InitRun ==
    /\ caller \in {"app", "test"}
    /\ applicant_name \in Names
    /\ age \in Ages
    /\ caller = "test" => (applicant_name = "John Doe" /\ age = 35)
    /\ application_data \in Applications \cup OutOfRangeApplications
    /\ caller = "test" => application_data \in Applications
    /\ engine = "none"
    /\ processing_results = <<>>
    /\ calls = <<>>
    /\ report = NoValue
    /\ final_decision = NoValue
    /\ risk_score = NoValue
    /\ agent_results = NoValue
    /\ rescaled = 0
    /\ fallbacks = 0
    /\ result = NoValue
    /\ application_id = 0
    /\ save_calls = 0
    /\ endpoint = NoEndpoint
    /\ scored = <<>>

\* what is submitted in the runs that have credentials for a warehouse
WarehouseApplications ==
    {LoanApp750, LoanApp620, LoanApp300} \cup OutOfRangeApplications

\* the application process before initialize_databricks() has run, with one
\* submission of the form to come, or one run of the test script, which
\* constructs no manager.  The warehouse holds the whole schema or none of
\* it; a run without credentials has no warehouse to speak of.
Init ==
    /\ InitRun
    /\ StoreIdle
    /\ is_databricks_environment = FALSE
    /\ credentials_available \in BOOLEAN
    /\ sql_connection = 0
    /\ connections = <<>>
    /\ queries = 0
    /\ caller = "test" => ~credentials_available
    /\ credentials_available => application_data \in WarehouseApplications
    /\ catalog_objects \in {{}, AllObjects}
    /\ ~credentials_available => catalog_objects = {}
    /\ databricks_connected = FALSE
    /\ pc = IF caller = "app" THEN "startup" ELSE "idle"

-----------------------------------------------------------------------------
(* app.py: the submit button handler up to the engine call *)

\* str.strip() on the names of the model
Strip(name) == IF name = "   " THEN "" ELSE name

\* variant: only the name is checked, the ranges being left to the widgets
validation_errors_name_only ==
    IF applicant_name = "" \/ Strip(applicant_name) = ""
    THEN {"Full Name is required"} ELSE {}

validation_errors ==
    (IF applicant_name = "" \/ Strip(applicant_name) = ""
     THEN {"Full Name is required"} ELSE {})
    \cup (IF age < 18 THEN {"Age must be 18 or older"} ELSE {})
    \cup (IF application_data.annual_income <= 0
          THEN {"Annual Income must be greater than 0"} ELSE {})
    \cup (IF application_data.credit_score < 300 \/ application_data.credit_score > 850
          THEN {"Credit Score must be between 300 and 850"} ELSE {})
    \cup (IF application_data.loan_amount < 1000
          THEN {"Loan Amount must be at least $1,000"} ELSE {})

Submit ==
    /\ pc = "idle"
    /\ caller = "app"
    /\ pc' = IF validation_errors # {} THEN "invalid" ELSE "call_endpoint"
    /\ UNCHANGED <<endpoint, caller, applicant_name, age, application_data, databricks_connected,
                   application_id, save_calls, engine,
                   processing_results, calls, report, final_decision, risk_score,
                   agent_results, rescaled, fallbacks, result>>
    /\ UNCHANGED dbvars
    /\ UNCHANGED ccvars
    /\ UNCHANGED scvars

\* what the HTTP request of call_agent_bricks_endpoint can end in
HttpOutcomes == {"200", "non200", "RequestException"}

\* a body a remote decision service may answer with
RemoteDecisions ==
    {[decision |-> "approved", approved_amount |-> 1000, interest_rate |-> Num(500),
      risk_score |-> FracInt(500), reasoning |-> <<"remote">>, processing_time |-> 0],
     [decision |-> "rejected", approved_amount |-> 0, interest_rate |-> None,
      risk_score |-> FracInt(800), reasoning |-> <<"remote">>, processing_time |-> 0]}

\* what the body of a 200 response can be: a JSON object, JSON that is not an
\* object, or no JSON at all
ResponseBodies == {"object", "array", "not_json"}

\* lines 22-67: the branch a call takes
EndpointRoute(use_direct, import_ok, endpoint_url, http, body) ==
    IF use_direct THEN (IF import_ok THEN "direct" ELSE "direct_import_error")
    ELSE IF ~endpoint_url THEN "no_endpoint"
    ELSE IF http = "200" THEN
         (CASE body = "object"   -> "200_object"
            [] body = "array"    -> "200_array"
            [] body = "not_json" -> "200_not_json")
    ELSE IF http = "non200" THEN "non200"
    ELSE "request_exception"

\* line 53: requests.post is reached only past the toggle and the endpoint test
RequestsIssued(route) ==
    IF route \in {"200_object", "200_array", "200_not_json", "non200",
                  "request_exception"}
    THEN 1 ELSE 0

\* lines 56-59 and 65: result = response.json() raises on a body that is
\* not JSON, and result['processing_time'] = ... raises TypeError on a list;
\* except requests.exceptions.RequestException catches nothing else.  From
\* requests 2.27 on response.json() raises a subclass of RequestException,
\* before that a ValueError; the source pins no version.
EndpointRaises(route, json_is_request_exception) ==
    \/ route = "200_array"
    \/ route = "200_not_json" /\ ~json_is_request_exception

\* lines 18-67, up to the return statement or the exception that leaves the
\* function; the direct branch goes on inside agent_bricks_underwrite
call_agent_bricks_endpoint ==
    /\ pc = "call_endpoint"
    /\ \E use_direct \in BOOLEAN, import_ok \in BOOLEAN, endpoint_url \in BOOLEAN,
          http \in HttpOutcomes, body \in ResponseBodies,
          json_is_request_exception \in BOOLEAN :
         LET route == EndpointRoute(use_direct, import_ok, endpoint_url, http, body)
             locals == [route |-> route, requests |-> RequestsIssued(route),
                        outcome |-> "returned"]
         IN IF route = "direct"
            THEN /\ pc' = "underwrite"
                 /\ engine' = "pipeline"
                 /\ result' = result
                 /\ endpoint' = [locals EXCEPT !.outcome = "underwrite"]
            ELSE IF EndpointRaises(route, json_is_request_exception)
            THEN /\ pc' = "endpoint_return"
                 /\ engine' = "http"
                 /\ result' = result
                 /\ endpoint' = [locals EXCEPT !.outcome = "raised"]
            ELSE IF route = "200_object"
            THEN /\ \E decision \in RemoteDecisions, t \in ProcessingTimes :
                       result' = [decision EXCEPT !.processing_time = t]
                 /\ engine' = "http"
                 /\ pc' = "endpoint_return"
                 /\ endpoint' = locals
            ELSE /\ result' = create_mock_underwriting_decision(application_data)
                 /\ engine' = "mock"
                 /\ pc' = "endpoint_return"
                 /\ endpoint' = locals
    /\ UNCHANGED <<caller, applicant_name, age, application_data, databricks_connected,
                   application_id, save_calls,
                   processing_results, calls, report, final_decision, risk_score,
                   agent_results, rescaled, fallbacks>>
    /\ UNCHANGED dbvars
    /\ UNCHANGED ccvars
    /\ UNCHANGED scvars

\* app.py 204 and 257-258: the call returns its decision to the submit
\* handler, or its exception reaches the handler's outer except
EndpointReturn ==
    /\ pc = "endpoint_return"
    /\ pc' = IF endpoint.outcome = "raised" THEN "error" ELSE "returned"
    /\ endpoint' = NoEndpoint
    /\ UNCHANGED <<caller, applicant_name, age, application_data, databricks_connected,
                   application_id, save_calls, engine,
                   processing_results, calls, report, final_decision, risk_score,
                   agent_results, rescaled, fallbacks, result>>
    /\ UNCHANGED dbvars
    /\ UNCHANGED ccvars
    /\ UNCHANGED scvars

\* test_multi_agent.py calls agent_bricks_underwrite on a dictionary directly
TestCall ==
    /\ pc = "idle"
    /\ caller = "test"
    /\ pc' = "underwrite"
    /\ engine' = "pipeline"
    /\ UNCHANGED <<endpoint, caller, applicant_name, age, application_data, databricks_connected,
                   application_id, save_calls,
                   processing_results, calls, report, final_decision, risk_score,
                   agent_results, rescaled, fallbacks, result>>
    /\ UNCHANGED dbvars
    /\ UNCHANGED ccvars
    /\ UNCHANGED scvars

-----------------------------------------------------------------------------
(* agent_bricks_integration.py: agent_bricks_underwrite and                *)
(* MultiAgentLoanUnderwriter.process_loan_application, one action per step *)

\* lines 249-277: start the clock, construct the underwriter and the LoanApplication
BeginUnderwrite ==
    /\ pc = "underwrite"
    /\ processing_results' = <<>>
    /\ pc' = "document_extractor"
    /\ UNCHANGED <<endpoint, caller, applicant_name, age, application_data, databricks_connected,
                   application_id, save_calls, engine, calls,
                   report, final_decision, risk_score, agent_results, rescaled,
                   fallbacks, result>>
    /\ UNCHANGED dbvars
    /\ UNCHANGED ccvars
    /\ UNCHANGED scvars

\* variant: compliance is checked before the credit analysis
AfterStageSwapped(agent) ==
    CASE agent = "document_extractor" -> "compliance_checker"
      [] agent = "compliance_checker" -> "credit_analyzer"
      [] agent = "credit_analyzer"    -> "decision_maker"
      [] agent = "decision_maker"     -> "report"

\* where process_loan_application goes after a stage has returned
AfterStage(agent) ==
    CASE agent = "document_extractor" -> "credit_analyzer"
      [] agent = "credit_analyzer"    -> "compliance_checker"
      [] agent = "compliance_checker" -> "decision_maker"
      [] agent = "decision_maker"     -> "report"

\* One stage call of process_loan_application: the stage method is invoked;
\* it returns an AgentResponse, stored under its key, or it raises, and
\* control leaves process_loan_application for the except block of
\* agent_bricks_underwrite.
RunStage(agent) ==
    /\ pc = agent
    /\ calls' = Append(calls, agent)
    /\ \E raises \in BOOLEAN :
         IF raises
         THEN /\ pc' = "except"
              /\ processing_results' = processing_results
         ELSE /\ pc' = AfterStage(agent)
              /\ processing_results' =
                    (ResultKey(agent) :> call_agent_endpoint(agent)) @@ processing_results
    /\ UNCHANGED <<endpoint, caller, applicant_name, age, application_data, databricks_connected,
                   application_id, save_calls, engine,
                   report, final_decision, risk_score, agent_results, rescaled,
                   fallbacks, result>>
    /\ UNCHANGED dbvars
    /\ UNCHANGED ccvars
    /\ UNCHANGED scvars

extract_documents == RunStage("document_extractor")
analyze_credit_risk == RunStage("credit_analyzer")
check_compliance == RunStage("compliance_checker")
make_loan_decision == RunStage("decision_maker")

\* lines 299-330, the list agent_results["agent_decisions"]
AgentDecisions(rep) ==
    <<[agent |-> "document_extractor", decision |-> "approve",
       confidence |-> rep.confidence_scores["document_extraction"]],
      [agent |-> "credit_analyzer",
       decision |-> IF Lower(rep.risk_assessment.risk_level) = "low"
                    THEN "approve" ELSE "reject",
       confidence |-> rep.confidence_scores["credit_analysis"]],
      [agent |-> "compliance_checker",
       decision |-> IF rep.compliance.status = "Passed" THEN "approve" ELSE "reject",
       confidence |-> rep.confidence_scores["compliance_check"]],
      [agent |-> "decision_maker",
       decision |-> IF Lower(rep.decision.status) = "approved"
                    THEN "approve" ELSE "reject",
       confidence |-> rep.confidence_scores["final_decision"]]>>

\* lines 287-292
MapFinalDecision(decision_data) ==
    [status |-> IF Lower(decision_data.status) = "approved" THEN "approved" ELSE "rejected",
     amount |-> decision_data.approved_amount,
     rate   |-> decision_data.interest_rate,
     reason |-> decision_data.reasoning]

\* line 147 and lines 280-332: the report is generated and mapped
AssembleReport ==
    /\ pc = "report"
    /\ LET rep == _generate_underwriting_report(LoanApp(application_data),
                                                processing_results) IN
         /\ report' = rep
         /\ final_decision' = MapFinalDecision(rep.decision)
         /\ risk_score' = Rescale(rep.risk_assessment.risk_score)
         /\ agent_results' = [agent_decisions |-> AgentDecisions(rep),
                              final_decision  |-> MapFinalDecision(rep.decision),
                              full_report     |-> rep]
    /\ rescaled' = rescaled + 1
    /\ pc' = "finish"
    /\ UNCHANGED <<endpoint, caller, applicant_name, age, application_data, databricks_connected,
                   application_id, save_calls, engine,
                   processing_results, calls, fallbacks, result>>
    /\ UNCHANGED dbvars
    /\ UNCHANGED ccvars
    /\ UNCHANGED scvars

\* variant: the except block reports the stages that had completed
FallbackKeepsStageResults ==
    /\ pc = "except"
    /\ risk_score' = calculate_risk_score(application_data)
    /\ final_decision' =
          make_underwriting_decision(application_data,
                                     calculate_risk_score(application_data))
    /\ agent_results' =
          [agent_decisions |->
              [i \in 1..Cardinality(DOMAIN processing_results) |->
                  [agent |-> Stages[i], decision |-> "approve", confidence |-> 85]],
           full_report |-> [error |-> TRUE]]
    /\ fallbacks' = fallbacks + 1
    /\ pc' = "finish"
    /\ UNCHANGED <<endpoint, caller, applicant_name, age, application_data, databricks_connected,
                   application_id, save_calls, engine,
                   processing_results, calls, report, rescaled, result>>
    /\ UNCHANGED dbvars
    /\ UNCHANGED ccvars
    /\ UNCHANGED scvars

\* variant: the except block logs and re-raises, as the handlers of
\* databricks_connection.py do
FallbackReraises ==
    /\ pc = "except"
    /\ pc' = "raised_to_caller"
    /\ UNCHANGED <<endpoint, caller, applicant_name, age, application_data, databricks_connected,
                   application_id, save_calls, engine,
                   processing_results, calls, report, final_decision, risk_score,
                   agent_results, rescaled, fallbacks, result>>
    /\ UNCHANGED dbvars
    /\ UNCHANGED ccvars
    /\ UNCHANGED scvars

\* lines 334-339: except Exception
Fallback ==
    /\ pc = "except"
    /\ risk_score' = calculate_risk_score(application_data)
    /\ final_decision' =
          make_underwriting_decision(application_data,
                                     calculate_risk_score(application_data))
    /\ agent_results' = [agent_decisions |-> <<>>, full_report |-> [error |-> TRUE]]
    /\ fallbacks' = fallbacks + 1
    /\ pc' = "finish"
    /\ UNCHANGED <<endpoint, caller, applicant_name, age, application_data, databricks_connected,
                   application_id, save_calls, engine,
                   processing_results, calls, report, rescaled, result>>
    /\ UNCHANGED dbvars
    /\ UNCHANGED ccvars
    /\ UNCHANGED scvars

\* lines 344-357: the dictionary agent_bricks_underwrite returns
UnderwriteResult(fd, rs, ar, t) ==
    [decision        |-> fd.status,
     approved_amount |-> Get(fd, "amount", 0),
     interest_rate   |-> Get(fd, "rate", Num(0)),
     risk_score      |-> rs,
     reasoning       |-> Get(fd, "reason", <<>>),
     processing_time |-> t,
     agent_details   |-> Get(ar, "agent_decisions", <<>>)]

\* lines 341-357: stop the clock and return
ReturnResult ==
    /\ pc = "finish"
    /\ \E t \in ProcessingTimes :
         result' = UnderwriteResult(final_decision, risk_score, agent_results, t)
    /\ pc' = "returned"
    /\ endpoint' = NoEndpoint
    /\ UNCHANGED <<caller, applicant_name, age, application_data, databricks_connected,
                   application_id, save_calls, engine,
                   processing_results, calls, report, final_decision, risk_score,
                   agent_results, rescaled, fallbacks>>
    /\ UNCHANGED dbvars
    /\ UNCHANGED ccvars
    /\ UNCHANGED scvars


-----------------------------------------------------------------------------
(* databricks_connection.py: the table loan_applications and the statements *)
(* the manager sends to it                                                   *)

\* Python's round(): the quotient n / d to the nearest integer, ties to even
PyRound(n, d) ==
    LET q == n \div d
        r == n % d
    IN IF 2 * r < d THEN q
       ELSE IF 2 * r > d THEN q + 1
       ELSE IF q % 2 = 0 THEN q ELSE q + 1

RECURSIVE SumOf(_, _)
SumOf(rows, field) ==
    IF rows = <<>> THEN 0 ELSE Head(rows)[field] + SumOf(Tail(rows), field)

CountWhere(rows, field, value) ==
    Len(SelectSeq(rows, LAMBDA r : r[field] = value))

\* SQL AVG: NULL over no rows
Avg(rows, field) ==
    IF rows = <<>> THEN None ELSE Num(Frac(SumOf(rows, field), Len(rows)))

\* WHERE application_timestamp >= CURRENT_DATE() - INTERVAL days DAYS
Since(tbl, now, days) ==
    SelectSeq(tbl, LAMBDA r : r.application_timestamp >= now - days)

\* the distinct values of a set of days, ascending
RECURSIVE SortAsc(_)
SortAsc(S) ==
    IF S = {} THEN <<>>
    ELSE LET m == CHOOSE x \in S : \A y \in S : x <= y
         IN <<m>> \o SortAsc(S \ {m})

\* one output row of the trends query for the rows g of one day
TrendBucket(day, g) ==
    [date               |-> day,
     total_applications |-> Len(g),
     approved           |-> CountWhere(g, "decision", "approved"),
     rejected           |-> CountWhere(g, "decision", "rejected"),
     avg_loan_amount    |-> Avg(g, "loan_amount"),
     avg_credit_score   |-> Avg(g, "credit_score")]

\* variant: the query has no GROUP BY and answers one row per record
TrendsQueryPerRecord(tbl, now, days) ==
    LET w == Since(tbl, now, days)
    IN [i \in 1..Len(w) |-> TrendBucket(w[i].application_timestamp, <<w[i]>>)]

\* lines 455-467: GROUP BY DATE(application_timestamp) ORDER BY date
TrendsQuery(tbl, now, days) ==
    LET w  == Since(tbl, now, days)
        ds == SortAsc({w[i].application_timestamp : i \in DOMAIN w})
    IN [i \in 1..Len(ds) |->
          TrendBucket(ds[i],
                      SelectSeq(w, LAMBDA r : r.application_timestamp = ds[i]))]

\* the rows of a sequence in reverse order
Reverse(rows) == [i \in 1..Len(rows) |-> rows[Len(rows) + 1 - i]]

\* app.py 320-327: ORDER BY application_timestamp DESC LIMIT 10
RecentQuery(tbl) ==
    LET r == Reverse(tbl)
        n == IF Len(r) < 10 THEN Len(r) ELSE 10
    IN [i \in 1..n |->
          [application_id        |-> r[i].application_id,
           applicant_name        |-> r[i].applicant_name,
           decision              |-> r[i].decision,
           application_timestamp |-> r[i].application_timestamp,
           loan_amount           |-> r[i].loan_amount]]

\* lines 419-422: the four queries of get_analytics_data, in call order
AnalyticsQueries == <<"today_count", "approval_rate", "processing_time", "credit_score">>

\* lines 259-302: the four statements of create_schema_if_not_exists, in call order
SchemaStatements ==
    <<"create_catalog", "create_schema", "create_applications_table",
      "create_analytics_table">>

\* the statement an operation sends with its step-th call of execute_query
StatementKind(o, step) ==
    CASE o.name = "save_loan_application"  -> "insert"
      [] o.name = "get_application_status" -> "select_by_id"
      [] o.name = "get_analytics_data"     -> AnalyticsQueries[step]
      [] o.name = "get_application_trends" -> "trends"
      [] o.name = "recent_applications"    -> "recent"
      [] o.name = "create_schema_if_not_exists" -> SchemaStatements[step]

NumQueries(o) ==
    CASE o.name = "get_analytics_data"          -> Len(AnalyticsQueries)
      [] o.name = "create_schema_if_not_exists" -> Len(SchemaStatements)
      [] OTHER                                  -> 1

\* the statements that change what the warehouse holds
WritingKinds == {"insert"} \cup {SchemaStatements[i] : i \in DOMAIN SchemaStatements}

\* the object a statement needs to find in the warehouse: the catalog for
\* CREATE SCHEMA, the schema for CREATE TABLE, the table for INSERT and SELECT
Requires(kind) ==
    CASE kind = "create_catalog"             -> {}
      [] kind = "create_schema"              -> {"catalog"}
      [] kind = "create_applications_table"  -> {"schema"}
      [] kind = "create_analytics_table"     -> {"schema"}
      [] OTHER                               -> {"loan_applications"}

\* CREATE ... IF NOT EXISTS: the object exists afterwards
ApplyDDL(kind, objects) ==
    CASE kind = "create_catalog"             -> objects \cup {"catalog"}
      [] kind = "create_schema"              -> objects \cup {"schema"}
      [] kind = "create_applications_table"  -> objects \cup {"loan_applications"}
      [] kind = "create_analytics_table"     -> objects \cup {"loan_analytics"}
      [] OTHER                               -> objects

\* cursor.fetchall() of a statement that was carried out on table tbl
FetchAll(kind, o, tbl, now) ==
    CASE kind = "insert" -> <<[num_affected_rows |-> 1]>>
      [] kind = "select_by_id" ->
           SelectSeq(tbl, LAMBDA r : r.application_id = o.application_id)
      [] kind = "today_count" ->
           <<[count |-> Len(SelectSeq(tbl, LAMBDA r : r.application_timestamp = now))]>>
      [] kind = "approval_rate" ->
           LET w == Since(tbl, now, 30)
           IN <<[total    |-> Len(w),
                 approved |-> IF w = <<>> THEN None
                              ELSE Num(CountWhere(w, "decision", "approved"))]>>
      [] kind = "processing_time" ->
           <<[avg_time |-> Avg(Since(tbl, now, 7), "processing_time_seconds")]>>
      [] kind = "credit_score" ->
           <<[avg_score |-> Avg(Since(tbl, now, 30), "credit_score")]>>
      [] kind = "trends" -> TrendsQuery(tbl, now, o.days)
      [] kind = "recent" -> RecentQuery(tbl)
      [] OTHER -> <<>>

\* variant: INSERT OVERWRITE, the statement replaces the table's rows
ApplyStatementOverwrite(kind, o, tbl, ansi) ==
    IF kind = "insert"
    THEN <<InsertedRow(o.application_id, o.application_data, o.decision_result,
                       o.application_timestamp, ansi)>>
    ELSE tbl

\* variant: CREATE OR REPLACE TABLE, the table starts over empty
CreateOrReplaceTable(tbl) == <<>>

\* lines 263-283: CREATE TABLE IF NOT EXISTS keeps a table that is there
CreateTableIfNotExists(tbl) == tbl

\* the table after the statement was carried out: INSERT INTO adds one row,
\* CREATE TABLE goes by its clause, anything else leaves the table as it is
ApplyStatement(kind, o, tbl, ansi) ==
    IF kind = "insert"
    THEN Append(tbl, InsertedRow(o.application_id, o.application_data,
                                 o.decision_result, o.application_timestamp, ansi))
    ELSE IF kind = "create_applications_table"
    THEN CreateTableIfNotExists(tbl)
    ELSE tbl

-----------------------------------------------------------------------------
(* databricks_connection.py: what each operation hands to its caller       *)

\* the operation returned v; handled tells whether its except block ran
Returned(v, handled) == [kind |-> "value", value |-> v, handled |-> handled]

\* the operation raised to its caller
Raised == [kind |-> "raised", value |-> NoValue, handled |-> TRUE]

\* variant: the first row is taken without looking whether there is one
FirstRowUnchecked(df) ==
    IF df # <<>> THEN Returned(df[1], FALSE) ELSE Raised

\* lines 380-382: if not df.empty: return df.iloc[0].to_dict(); return None
FirstRowOrNone(df) ==
    IF df # <<>> THEN Returned(df[1], FALSE) ELSE Returned(NoValue, FALSE)

\* truth value of a fetched aggregate: NULL and zero are false
Truthy(v) == v.tag = "num" /\ v.val.n # 0

\* lines 441-449: the values of the except block
AnalyticsDefaults ==
    [today_applications |-> 0, approval_rate |-> 0,
     avg_processing_time |-> 0, avg_credit_score |-> 0]

\* lines 424-439: the metrics computed from the four DataFrames.  The
\* approval rate and the processing time are rounded to one decimal and held
\* in tenths; the processing time arrives in hundredths of a second.
AnalyticsMetrics(d) ==
    [today_applications  |-> IF d[1] # <<>> THEN d[1][1].count ELSE 0,
     approval_rate       |->
        IF d[2] # <<>> /\ d[2][1].total > 0
        THEN PyRound(d[2][1].approved.val * 1000, d[2][1].total) ELSE 0,
     avg_processing_time |->
        IF d[3] # <<>> /\ Truthy(d[3][1].avg_time)
        THEN PyRound(d[3][1].avg_time.val.n, d[3][1].avg_time.val.d * 10) ELSE 0,
     avg_credit_score    |->
        IF d[4] # <<>> /\ Truthy(d[4][1].avg_score)
        THEN PyRound(d[4][1].avg_score.val.n, d[4][1].avg_score.val.d) ELSE 0]

\* every query of the operation returned its DataFrame
OnReturn(o, d) ==
    CASE o.name = "save_loan_application"  -> Returned(o.application_id, FALSE)
      [] o.name = "get_application_status" -> FirstRowOrNone(d[1])
      [] o.name = "get_analytics_data"     -> Returned(AnalyticsMetrics(d), FALSE)
      [] o.name = "get_application_trends" -> Returned(d[1], FALSE)
      [] o.name = "recent_applications"    -> Returned(d[1], FALSE)
      [] o.name = "create_schema_if_not_exists" -> Returned(NoValue, FALSE)

\* variant: get_analytics_data logs and re-raises as its neighbours do
OnRaiseAlways(o) == Raised

\* a query of the operation raised: save_loan_application and
\* get_application_status log and re-raise (366-368, 384-386),
\* get_analytics_data returns its defaults (441-450), get_application_trends
\* an empty DataFrame (471-473); the recent-applications query is a bare
\* execute_query, whose exception reaches app.py; create_schema_if_not_exists
\* logs and re-raises (306-308)
OnRaise(o) ==
    CASE o.name = "save_loan_application"  -> Raised
      [] o.name = "get_application_status" -> Raised
      [] o.name = "get_analytics_data"     -> Returned(AnalyticsDefaults, TRUE)
      [] o.name = "get_application_trends" -> Returned(<<>>, TRUE)
      [] o.name = "recent_applications"    -> Raised
      [] o.name = "create_schema_if_not_exists" -> Raised

-----------------------------------------------------------------------------
(* databricks_connection.py: DatabricksManager.get_sql_connection and      *)
(* DatabricksManager.execute_query                                          *)

\* store operations a run of the store begins
MaxOps == 2

\* the last day a run of the store reaches
MaxDay == 1

\* failures the warehouse or the network deals in a run
MaxFaults == 2

\* execute_query(query, params=None, retry_count=1)
DefaultRetryCount == 1

\* how an attempt of execute_query can end: the rows came back, or an
\* exception whose message names a stale session, or any other exception
Outcomes == {"ok", "stale", "other"}

\* "INVALID_STATE" in error_msg or "SessionHandle" in error_msg
IsStaleSessionError(outcome) == outcome = "stale"

\* variant: every exception is retried while attempts remain
ShouldRetryAnyError(outcome, att, retries) == att < retries

\* lines 242-245: the except block continues the loop
ShouldRetry(outcome, att, retries) ==
    IsStaleSessionError(outcome) /\ att < retries

\* force_reconnect=(attempt > 0)
ForceReconnect(att) == att > 0

\* variant: the held connection is dropped without being closed
CloseHeldSkipped(conns, held) == conns

\* sql_connection.close() on the held connection, errors ignored
CloseHeld(conns, held) ==
    IF held # 0 THEN [conns EXCEPT ![held] = "closed"] ELSE conns

\* lines 154-210: method 1 and method 2 are tried only in a Databricks
\* environment, method 3 always; the first sql.connect that returns wins
Connects(in_databricks, m1, m2, m3) ==
    (in_databricks /\ (m1 \/ m2)) \/ m3

\* line 222: for attempt in range(retry_count + 1), entered with a fresh loop
execute_query ==
    /\ eq_pc = "idle"
    /\ op_step > 0
    /\ queries' = queries + 1
    /\ attempts' = <<>>
    /\ attempt' = 0
    /\ retry_count' = DefaultRetryCount
    /\ eq_pc' = IF credentials_available THEN "attempt" ELSE "raised"
    /\ UNCHANGED <<credentials_available, is_databricks_environment,
                   sql_connection, connections>>
    /\ UNCHANGED tablevars
    /\ UNCHANGED opvars
    /\ UNCHANGED uwvars
    /\ UNCHANGED ccvars
    /\ UNCHANGED scvars

\* lines 240-250: what the except block of execute_query does with an exception
OnException(outcome, force) ==
    /\ attempts' = Append(attempts, [force |-> force, outcome |-> outcome])
    /\ IF ShouldRetry(outcome, attempt, retry_count)
       THEN /\ attempt' = attempt + 1
            /\ eq_pc' = "attempt"
       ELSE /\ attempt' = attempt
            /\ eq_pc' = "raised"

\* line 224: connection = self.get_sql_connection(force_reconnect=(attempt > 0)).
\* Lines 141-142 raise without credentials; lines 144-212 close the held
\* connection, try to connect and assign self.sql_connection only when a
\* sql.connect returned, so after a failed reconnect the attribute still
\* names the connection that was closed.
get_sql_connection ==
    /\ eq_pc = "attempt"
    /\ LET force == ForceReconnect(attempt) IN
         IF ~credentials_available
         THEN /\ OnException("other", force)
              /\ UNCHANGED <<sql_connection, connections, faults>>
         ELSE IF sql_connection = 0 \/ force
         THEN \E m1 \in BOOLEAN, m2 \in BOOLEAN, m3 \in BOOLEAN,
                 message \in {"stale", "other"} :
                LET closed == CloseHeld(connections, sql_connection)
                    id == Len(connections) + 1 IN
                  IF Connects(is_databricks_environment, m1, m2, m3)
                  THEN /\ connections' = Append(closed, "open")
                       /\ sql_connection' = id
                       /\ eq_pc' = "cursor"
                       /\ UNCHANGED <<attempt, attempts, faults>>
                  ELSE /\ faults < MaxFaults
                       /\ faults' = faults + 1
                       /\ connections' = closed
                       /\ sql_connection' = sql_connection
                       /\ OnException(message, force)
         ELSE /\ eq_pc' = "cursor"
              /\ UNCHANGED <<sql_connection, connections, attempt, attempts, faults>>
    /\ UNCHANGED <<credentials_available, is_databricks_environment,
                   retry_count, queries>>
    /\ UNCHANGED <<loan_applications, catalog_objects, today>>
    /\ UNCHANGED opvars
    /\ UNCHANGED uwvars
    /\ UNCHANGED ccvars
    /\ UNCHANGED scvars

\* lines 225-238: cursor.execute and fetchall on the connection obtained.
\* A closed connection cannot answer, and neither can a statement with a
\* value its column cannot hold.  An exception can leave the try block
\* before the statement was carried out or after it (description and
\* fetchall follow execute inside the same try).  A statement on an object
\* the warehouse does not hold is refused.
run_cursor ==
    /\ eq_pc = "cursor"
    /\ \E outcome \in Outcomes, carried_out \in BOOLEAN, ansi \in BOOLEAN :
         LET kind == StatementKind(op, op_step)
             overflow == kind = "insert" /\ InsertOverflows(op.decision_result, ansi)
             missing == ~(Requires(kind) \subseteq catalog_objects)
             refused == connections[sql_connection] = "closed" \/ overflow \/ missing
         IN /\ (connections[sql_connection] = "closed")
                  => (outcome # "ok" /\ ~carried_out)
            /\ (overflow \/ missing) => (outcome = "other" /\ ~carried_out)
            /\ (outcome # "ok" /\ ~refused) => faults < MaxFaults
            /\ faults' = IF outcome # "ok" /\ ~refused THEN faults + 1 ELSE faults
            /\ (outcome = "ok") => carried_out
            /\ (kind \notin WritingKinds /\ outcome # "ok") => ~carried_out
            /\ loan_applications' =
                  IF carried_out
                  THEN ApplyStatement(kind, op, loan_applications, ansi)
                  ELSE loan_applications
            /\ catalog_objects' =
                  IF carried_out THEN ApplyDDL(kind, catalog_objects)
                  ELSE catalog_objects
            /\ IF outcome = "ok"
               THEN /\ attempts' = Append(attempts,
                                          [force |-> ForceReconnect(attempt),
                                           outcome |-> "ok"])
                    /\ attempt' = attempt
                    /\ dfs' = Append(dfs, FetchAll(kind, op, loan_applications', today))
                    /\ eq_pc' = "returned"
               ELSE /\ OnException(outcome, ForceReconnect(attempt))
                    /\ dfs' = dfs
    /\ UNCHANGED <<credentials_available, is_databricks_environment,
                   sql_connection, connections, retry_count, queries>>
    /\ UNCHANGED <<next_uuid, today, op, op_step, op_result, ops, saved>>
    /\ UNCHANGED uwvars
    /\ UNCHANGED ccvars
    /\ UNCHANGED scvars

\* execute_query hands its DataFrame or its exception to the operation that
\* called it, and its locals are gone: the operation sends its next query,
\* returns, or runs its except block
query_finished ==
    /\ eq_pc \in {"returned", "raised"}
    /\ eq_pc' = "idle"
    /\ retry_count' = 0
    /\ attempt' = 0
    /\ attempts' = <<>>
    /\ IF eq_pc = "returned" /\ op_step < NumQueries(op)
       THEN /\ op_step' = op_step + 1
            /\ op_result' = op_result
            /\ saved' = saved
       ELSE /\ op_step' = 0
            /\ op_result' = IF eq_pc = "returned" THEN OnReturn(op, dfs)
                            ELSE OnRaise(op)
            /\ saved' = IF op.name = "save_loan_application" /\ eq_pc = "returned"
                        THEN saved \cup {[application_id   |-> op.application_id,
                                          application_data |-> op.application_data,
                                          decision_result  |-> op.decision_result]}
                        ELSE saved
    /\ UNCHANGED <<credentials_available, is_databricks_environment,
                   sql_connection, connections, queries>>
    /\ UNCHANGED <<loan_applications, catalog_objects, next_uuid, today, op, dfs,
                   ops, faults>>
    /\ UNCHANGED uwvars
    /\ UNCHANGED ccvars
    /\ UNCHANGED scvars

\* the decision the scoring fallback of agent_bricks_underwrite returns
FallbackDecision(a, t) ==
    UnderwriteResult(make_underwriting_decision(a, calculate_risk_score(a)),
                     calculate_risk_score(a), [agent_decisions |-> <<>>], t)

\* what a run of the store saves: the first application with the decision of
\* the mock of app.py, the second with the decision of the scoring fallback
SaveInputs ==
    {[app      |-> ApplicationDict("John Doe", 35, LoanApp750),
      decision |-> create_mock_underwriting_decision(LoanApp750)],
     [app      |-> ApplicationDict("John Doe", 35, LoanApp620),
      decision |-> FallbackDecision(LoanApp620, 45)]}

\* get_application_trends(days): the dashboard passes 30
TrendDays == {0, 30}

\* a caller enters an operation of the manager; no other one is running
BeginOp(o) ==
    /\ op.name = "none"
    /\ eq_pc = "idle"
    /\ ops < MaxOps
    /\ op' = o
    /\ op_step' = 1
    /\ dfs' = <<>>
    /\ op_result' = NoResult
    /\ ops' = ops + 1
    /\ saved' = saved
    /\ UNCHANGED <<credentials_available, is_databricks_environment,
                   sql_connection, connections, eq_pc, retry_count, attempt,
                   attempts, queries>>
    /\ UNCHANGED tablevars
    /\ UNCHANGED uwvars
    /\ UNCHANGED ccvars
    /\ UNCHANGED scvars

\* variant: the identifier is looked up in the application dictionary, which
\* has none, instead of being generated
SaveOpWithGivenId(id, app, decision, now) ==
    [name |-> "save_loan_application",
     application_id |-> Get(app, "application_id", 0),
     application_data |-> app, decision_result |-> decision,
     application_timestamp |-> now]

\* lines 312-359: a fresh uuid4 and the parameters, the timestamp among them
SaveOp(id, app, decision, now) ==
    [name |-> "save_loan_application", application_id |-> id,
     application_data |-> app, decision_result |-> decision,
     application_timestamp |-> now]

save_loan_application ==
    \E inp \in SaveInputs :
       /\ BeginOp(SaveOp(next_uuid + 1, inp.app, inp.decision, today))
       /\ next_uuid' = next_uuid + 1

\* an identifier some save generated, or one that no save generated (0)
get_application_status ==
    \E id \in 0..next_uuid :
       /\ BeginOp([name |-> "get_application_status", application_id |-> id])
       /\ next_uuid' = next_uuid

get_analytics_data ==
    /\ BeginOp([name |-> "get_analytics_data"])
    /\ next_uuid' = next_uuid

get_application_trends ==
    \E days \in TrendDays :
       /\ BeginOp([name |-> "get_application_trends", days |-> days])
       /\ next_uuid' = next_uuid

\* app.py 311-341: the recent-applications query of the status tab
recent_applications ==
    /\ BeginOp([name |-> "recent_applications"])
    /\ next_uuid' = next_uuid

\* lines 252-308
create_schema_if_not_exists ==
    /\ BeginOp([name |-> "create_schema_if_not_exists"])
    /\ next_uuid' = next_uuid

\* the caller has taken the operation's value or exception
op_returned ==
    /\ op.name # "none"
    /\ op_result # NoResult
    /\ op' = NoOp
    /\ op_result' = NoResult
    /\ dfs' = <<>>
    /\ UNCHANGED <<credentials_available, is_databricks_environment,
                   sql_connection, connections, eq_pc, retry_count, attempt,
                   attempts, queries>>
    /\ UNCHANGED <<next_uuid, op_step, ops, saved>>
    /\ UNCHANGED tablevars
    /\ UNCHANGED uwvars
    /\ UNCHANGED ccvars
    /\ UNCHANGED scvars

\* midnight passes; an operation is taken not to span it
NextDay ==
    /\ today < MaxDay
    /\ op.name = "none"
    /\ today' = today + 1
    /\ UNCHANGED <<credentials_available, is_databricks_environment,
                   sql_connection, connections, eq_pc, retry_count, attempt,
                   attempts, queries>>
    /\ UNCHANGED <<loan_applications, catalog_objects, faults>>
    /\ UNCHANGED opvars
    /\ UNCHANGED uwvars
    /\ UNCHANGED ccvars
    /\ UNCHANGED scvars

NextStore ==
    \/ save_loan_application
    \/ get_application_status
    \/ get_analytics_data
    \/ get_application_trends
    \/ recent_applications
    \/ create_schema_if_not_exists
    \/ execute_query
    \/ get_sql_connection
    \/ run_cursor
    \/ query_finished
    \/ op_returned
    \/ NextDay

\* what earlier runs of the application saved into the table: nothing, or
\* one application on the first day
EarlierSaves ==
    {<<>>, <<[app      |-> ApplicationDict("John Doe", 35, LoanApp620),
              decision |-> create_mock_underwriting_decision(LoanApp620)]>>}

\* the store alone: no decision engine run is in progress
InitStoreOnly ==
    /\ \E earlier \in EarlierSaves :
          /\ FreshManager
          /\ StoreAtRest(earlier)
          /\ catalog_objects \in (IF earlier = <<>> THEN {{}, AllObjects}
                                  ELSE {AllObjects})
    /\ InitRun
    /\ pc = "idle"
    /\ databricks_connected = FALSE
    /\ caller = "app"
    /\ applicant_name = "John Doe"
    /\ age = 35
    /\ application_data = [credit_score |-> 750, annual_income |-> 80000,
                           loan_amount |-> 200000, debt_to_income_ratio |-> 25]

SpecStore == InitStoreOnly /\ [][NextStore]_vars

-----------------------------------------------------------------------------
(* app.py: the submit button handler after the engine call *)

\* variant: the handler saves whether or not the startup connected
ShouldSaveAlways(connected) == TRUE

\* line 208: if databricks_connected
ShouldSave(connected) == connected

\* lines 206-213: application_id = None; if databricks_connected, the handler
\* enters save_loan_application with the form's dictionary and the decision
SaveIfConnected ==
    /\ pc = "returned"
    /\ caller = "app"
    /\ application_id' = 0
    /\ IF ShouldSave(databricks_connected)
       THEN /\ op' = SaveOp(next_uuid + 1,
                            ApplicationDict(applicant_name, age, application_data),
                            result, today)
            /\ next_uuid' = next_uuid + 1
            /\ op_step' = 1
            /\ ops' = ops + 1
            /\ save_calls' = save_calls + 1
            /\ pc' = "saving"
       ELSE /\ UNCHANGED <<op, next_uuid, op_step, ops, save_calls>>
            /\ pc' = "display"
    /\ UNCHANGED <<endpoint, caller, applicant_name, age, application_data, databricks_connected,
                   engine, processing_results, calls, report, final_decision,
                   risk_score, agent_results, rescaled, fallbacks, result>>
    /\ UNCHANGED <<credentials_available, is_databricks_environment,
                   sql_connection, connections, eq_pc, retry_count, attempt,
                   attempts, queries, dfs, op_result, saved>>
    /\ UNCHANGED tablevars
    /\ UNCHANGED ccvars
    /\ UNCHANGED scvars

\* where the handler stands once save_loan_application has returned or raised
AfterSaveUnguarded(outcome) == IF outcome.kind = "raised" THEN "error" ELSE "display"

\* lines 209-213: the inner try; except Exception shows a warning and goes on
AfterSave(outcome) == "display"

\* the save has returned its id or raised
SaveDone ==
    /\ pc = "saving"
    /\ op_result # NoResult
    /\ application_id' = IF op_result.kind = "value" THEN op_result.value ELSE 0
    /\ pc' = AfterSave(op_result)
    /\ op' = NoOp
    /\ op_result' = NoResult
    /\ dfs' = <<>>
    /\ UNCHANGED <<endpoint, caller, applicant_name, age, application_data, databricks_connected,
                   save_calls, engine, processing_results, calls, report,
                   final_decision, risk_score, agent_results, rescaled, fallbacks,
                   result>>
    /\ UNCHANGED <<credentials_available, is_databricks_environment,
                   sql_connection, connections, eq_pc, retry_count, attempt,
                   attempts, queries, next_uuid, op_step, ops, saved>>
    /\ UNCHANGED tablevars
    /\ UNCHANGED ccvars
    /\ UNCHANGED scvars

\* lines 221-229: an approved decision is shown with its rate formatted as
\* a number, which a rate of None does not allow
DisplayRaises(r) == r.decision = "approved" /\ r.interest_rate = None

\* lines 215-245: the decision is shown; an exception of the formatting
\* reaches the outer except of lines 257-258
DisplayResults ==
    /\ pc = "display"
    /\ pc' = IF DisplayRaises(result) THEN "error" ELSE "displayed"
    /\ UNCHANGED <<endpoint, caller, applicant_name, age, application_data, databricks_connected,
                   application_id, save_calls, engine, processing_results, calls,
                   report, final_decision, risk_score, agent_results, rescaled,
                   fallbacks, result>>
    /\ UNCHANGED dbvars
    /\ UNCHANGED ccvars
    /\ UNCHANGED scvars

\* app.py 106-126 and 139: without credentials the answer is False at
\* once; with them the manager runs create_schema_if_not_exists
initialize_databricks ==
    /\ pc = "startup"
    /\ IF ~credentials_available
       THEN /\ pc' = "idle"
            /\ UNCHANGED <<op, op_step, ops>>
       ELSE /\ pc' = "initializing"
            /\ op' = [name |-> "create_schema_if_not_exists"]
            /\ op_step' = 1
            /\ ops' = ops + 1
    /\ databricks_connected' = FALSE
    /\ UNCHANGED <<endpoint, caller, applicant_name, age, application_data,
                   application_id, save_calls, engine, processing_results, calls,
                   report, final_decision, risk_score, agent_results, rescaled,
                   fallbacks, result>>
    /\ UNCHANGED <<credentials_available, is_databricks_environment,
                   sql_connection, connections, eq_pc, retry_count, attempt,
                   attempts, queries, next_uuid, dfs, op_result, saved>>
    /\ UNCHANGED tablevars
    /\ UNCHANGED ccvars
    /\ UNCHANGED scvars

\* app.py 120-126: True once the schema statements went through, False from
\* the except block
InitializeDone ==
    /\ pc = "initializing"
    /\ op_result # NoResult
    /\ databricks_connected' = (op_result.kind = "value")
    /\ pc' = "idle"
    /\ op' = NoOp
    /\ op_result' = NoResult
    /\ dfs' = <<>>
    /\ UNCHANGED <<endpoint, caller, applicant_name, age, application_data,
                   application_id, save_calls, engine, processing_results, calls,
                   report, final_decision, risk_score, agent_results, rescaled,
                   fallbacks, result>>
    /\ UNCHANGED <<credentials_available, is_databricks_environment,
                   sql_connection, connections, eq_pc, retry_count, attempt,
                   attempts, queries, next_uuid, op_step, ops, saved>>
    /\ UNCHANGED tablevars
    /\ UNCHANGED ccvars
    /\ UNCHANGED scvars

Next ==
    \/ initialize_databricks
    \/ InitializeDone
    \/ Submit
    \/ call_agent_bricks_endpoint
    \/ EndpointReturn
    \/ TestCall
    \/ BeginUnderwrite
    \/ extract_documents
    \/ analyze_credit_risk
    \/ check_compliance
    \/ make_loan_decision
    \/ AssembleReport
    \/ Fallback
    \/ ReturnResult
    \/ SaveIfConnected
    \/ execute_query
    \/ get_sql_connection
    \/ run_cursor
    \/ query_finished
    \/ SaveDone
    \/ DisplayResults

Spec == Init /\ [][Next]_vars

-----------------------------------------------------------------------------
(* databricks_connection.py: several requests on the shared module global.  *)
(* Nothing in the source takes a lock, so the steps of get_databricks_manager *)
(* and get_sql_connection of different threads interleave between a test    *)
(* and the assignment that follows it.  Each request fetches the manager    *)
(* and saves one application; no statement fails here.                      *)

\* thread t moves to position p with the given locals changed
Moved(t, p, m, c, id) ==
    [threads EXCEPT ![t] = [pc |-> p, manager |-> m, connection |-> c,
                            application_id |-> id]]

\* line 490: if _databricks_manager is None
CheckManager(t) ==
    /\ threads[t].pc = "start"
    /\ threads' = [threads EXCEPT ![t].pc =
                      IF global_manager = 0 THEN "construct" ELSE "return_manager"]
    /\ UNCHANGED <<global_manager, managers, connections, next_uuid,
                   loan_applications>>

\* line 491: _databricks_manager = DatabricksManager(), holding no connection
ConstructManager(t) ==
    /\ threads[t].pc = "construct"
    /\ managers' = Append(managers, 0)
    /\ global_manager' = Len(managers) + 1
    /\ threads' = [threads EXCEPT ![t].pc = "return_manager"]
    /\ UNCHANGED <<connections, next_uuid, loan_applications>>

\* line 492: return _databricks_manager; then save_loan_application line 314
\* draws its uuid4
ReturnManager(t) ==
    /\ threads[t].pc = "return_manager"
    /\ threads' = Moved(t, "check_connection", global_manager, 0, next_uuid + 1)
    /\ next_uuid' = next_uuid + 1
    /\ UNCHANGED <<global_manager, managers, connections, loan_applications>>

\* line 145: if not self.sql_connection or force_reconnect, on attempt 0
CheckConnection(t) ==
    /\ threads[t].pc = "check_connection"
    /\ threads' = [threads EXCEPT ![t].pc =
                      IF managers[threads[t].manager] = 0
                      THEN "connect" ELSE "return_connection"]
    /\ UNCHANGED <<global_manager, managers, connections, next_uuid,
                   loan_applications>>

\* lines 157-208: self.sql_connection = sql.connect(...)
Connect(t) ==
    /\ threads[t].pc = "connect"
    /\ connections' = Append(connections, "open")
    /\ managers' = [managers EXCEPT ![threads[t].manager] = Len(connections) + 1]
    /\ threads' = [threads EXCEPT ![t].pc = "return_connection"]
    /\ UNCHANGED <<global_manager, next_uuid, loan_applications>>

\* line 215: return self.sql_connection
ReturnConnection(t) ==
    /\ threads[t].pc = "return_connection"
    /\ threads' = [threads EXCEPT ![t].pc = "insert",
                                  ![t].connection = managers[threads[t].manager]]
    /\ UNCHANGED <<global_manager, managers, connections, next_uuid,
                   loan_applications>>

\* lines 225-238 and 361-364: the INSERT runs and the id is returned
Insert(t) ==
    /\ threads[t].pc = "insert"
    /\ \E inp \in SaveInputs :
         /\ ~InsertOverflows(inp.decision, TRUE)
         /\ loan_applications' =
               Append(loan_applications,
                      InsertedRow(threads[t].application_id, inp.app, inp.decision,
                                  today, TRUE))
    /\ threads' = [threads EXCEPT ![t].pc = "done"]
    /\ UNCHANGED <<global_manager, managers, connections, next_uuid>>

\* what a step of a thread leaves alone
ThreadFrame ==
    /\ UNCHANGED uwvars
    /\ UNCHANGED scvars
    /\ UNCHANGED <<credentials_available, is_databricks_environment,
                   sql_connection, eq_pc, retry_count, attempt, attempts, queries,
                   catalog_objects, today, op, op_step, dfs, op_result, ops, saved,
                   faults>>

get_databricks_manager ==
    \E t \in Threads :
       /\ CheckManager(t) \/ ConstructManager(t) \/ ReturnManager(t)
       /\ ThreadFrame

concurrent_get_sql_connection ==
    \E t \in Threads :
       /\ CheckConnection(t) \/ Connect(t) \/ ReturnConnection(t)
       /\ ThreadFrame

concurrent_insert ==
    \E t \in Threads :
       /\ Insert(t)
       /\ ThreadFrame

NextConcurrent ==
    \/ get_databricks_manager
    \/ concurrent_get_sql_connection
    \/ concurrent_insert

\* the module was imported, credentials are in the environment, and no
\* request has asked for the manager yet
InitConcurrent ==
    /\ InitStoreOnly
    /\ catalog_objects = AllObjects
    /\ credentials_available
    /\ ~is_databricks_environment

SpecConcurrent == InitConcurrent /\ [][NextConcurrent]_vars

-----------------------------------------------------------------------------
(* The scoring functions called on their own: calculate_risk_score followed *)
(* by make_underwriting_decision, as the except block of                    *)
(* agent_bricks_underwrite calls them, and create_mock_underwriting_decision *)
(* of app.py.  A run scores one application, under two sets of the fields   *)
(* the functions do not read, and between these calls a different one.      *)

\* calls of the scoring functions in a run
MaxCalls == 3

\* the dictionaries a call is given: the application of the run with the
\* name and age of the form, the same with another name and age, and the
\* second application of test_multi_agent.py
ScoringDicts ==
    {ApplicationDict(applicant_name, age, application_data),
     ApplicationDict("", 17, application_data),
     ApplicationDict("John Doe", 35, LoanApp620)}

\* agent_bricks_integration.py 337-338: risk_score = calculate_risk_score(
\* application_data); final_decision = make_underwriting_decision(
\* application_data, risk_score)
CallScoring ==
    /\ Len(scored) < MaxCalls
    /\ \E d \in ScoringDicts :
         LET rs == calculate_risk_score(ScoringFields(d)) IN
           scored' = Append(scored,
                            [fn               |-> "scoring",
                             application_data |-> d,
                             risk_score       |-> rs,
                             decision         |->
                                make_underwriting_decision(ScoringFields(d), rs)])
    /\ UNCHANGED uwvars
    /\ UNCHANGED dbvars
    /\ UNCHANGED ccvars

\* app.py 69-104
CallMock ==
    /\ Len(scored) < MaxCalls
    /\ \E d \in ScoringDicts :
         LET m == create_mock_underwriting_decision(ScoringFields(d)) IN
           scored' = Append(scored,
                            [fn               |-> "mock",
                             application_data |-> d,
                             risk_score       |-> m.risk_score,
                             decision         |-> m])
    /\ UNCHANGED uwvars
    /\ UNCHANGED dbvars
    /\ UNCHANGED ccvars

NextScoring ==
    \/ CallScoring
    \/ CallMock

\* no engine run, no manager: only the application of the run is drawn
InitScoring ==
    /\ InitRun
    /\ caller = "test"
    /\ pc = "idle"
    /\ databricks_connected = FALSE
    /\ StoreIdle
    /\ credentials_available = FALSE
    /\ is_databricks_environment = FALSE
    /\ sql_connection = 0
    /\ connections = <<>>
    /\ queries = 0
    /\ catalog_objects = {}

SpecScoring == InitScoring /\ [][NextScoring]_vars

-----------------------------------------------------------------------------
(* Properties *)

\* a stage method was invoked and did not return
StageRaised == Len(calls) > Cardinality(DOMAIN processing_results)

AllStagesCompleted == Cardinality(DOMAIN processing_results) = Len(Stages)

RequiredFields == {"decision", "approved_amount", "interest_rate", "risk_score", "reasoning"}

\* 300 <= f <= 850
InScoreDomain(f) == 300 * f.d <= f.n /\ f.n <= 850 * f.d

\* the three thresholds of the decision rule
MeetsAllThresholds(a) ==
    /\ a.credit_score >= 650
    /\ 5 * a.annual_income >= a.loan_amount
    /\ a.debt_to_income_ratio <= 40

\* C1: every decision of the pipeline, of its fallback and of
\* create_mock_underwriting_decision that is rejected has approved_amount 0
\* and no interest rate value.
C1_RejectedHasNoAmountNoRate ==
    (pc = "returned" /\ engine \in {"pipeline", "mock"} /\ result.decision = "rejected")
        => (result.approved_amount = 0 /\ result.interest_rate.tag = "none")

\* C2: when a stage raised, the returned decision carries the risk score of
\* calculate_risk_score, the status, amount and rate of
\* make_underwriting_decision, and no per-stage results, whatever stages had
\* completed.
C2_FallbackEqualsScoring ==
    (pc = "returned" /\ engine = "pipeline" /\ StageRaised) =>
        LET rs == calculate_risk_score(application_data)
            d == make_underwriting_decision(application_data, rs) IN
          /\ result.risk_score = rs
          /\ result.decision = d.status
          /\ result.approved_amount = d.amount
          /\ result.interest_rate = d.rate
          /\ result.agent_details = <<>>

\* C2 witness: the third stage raised after two had completed, and the
\* decision came back without stage results.
C2_Witness ==
    /\ pc = "returned"
    /\ engine = "pipeline"
    /\ StageRaised
    /\ Cardinality(DOMAIN processing_results) = 2
    /\ result.agent_details = <<>>

\* C3: for a validated application, whichever stage fails,
\* agent_bricks_underwrite never raises to its caller, and what it returns
\* has the five decision fields.
C3_AlwaysReturnsDecision ==
    (engine = "pipeline" /\ validation_errors = {}) =>
        /\ pc # "raised_to_caller"
        /\ (pc = "except" => ENABLED Fallback)
        /\ (pc = "returned" => RequiredFields \subseteq DOMAIN result)

\* C3 witness: a validated form submission whose pipeline had a failing
\* stage, answered with a decision.
C3_Witness ==
    /\ pc = "returned"
    /\ engine = "pipeline"
    /\ caller = "app"
    /\ validation_errors = {}
    /\ StageRaised
    /\ RequiredFields \subseteq DOMAIN result

\* C4: the value calculate_risk_score computed lies in [300, 850] and is
\* (700 - credit_score) + 2 * debt_to_income_ratio + income term, clamped,
\* where the income term is 100 for income 0.
C4_RiskScoreClamped ==
    fallbacks = 1 =>
        LET a == application_data
            D == IF a.annual_income > 0 THEN a.annual_income ELSE 1
            N == IF a.annual_income > 0
                 THEN (700 - a.credit_score + 2 * a.debt_to_income_ratio) * a.annual_income
                          + 100 * a.loan_amount
                 ELSE 700 - a.credit_score + 2 * a.debt_to_income_ratio + 100
            rs == risk_score IN
          /\ InScoreDomain(rs)
          /\ N < 300 * D => rs = FracInt(300)
          /\ N > 850 * D => rs = FracInt(850)
          /\ (300 * D <= N /\ N <= 850 * D) =>
                (D % rs.d = 0 /\ rs.n * (D \div rs.d) = N)

\* C4 witness: income 0 and a loan of 10,000,000, where the unclamped sum
\* is -50 and the score is 300.
C4_Witness ==
    /\ fallbacks = 1
    /\ application_data.annual_income = 0
    /\ application_data.loan_amount = 10000000
    /\ application_data.credit_score = 850
    /\ application_data.debt_to_income_ratio = 0
    /\ risk_score = FracInt(300)

\* C5: a decision the submit flow got from an in-process engine has a risk
\* score in [300, 850].
C5_SubmittedRiskScoreInDomain ==
    (pc = "returned" /\ caller = "app" /\ engine \in {"pipeline", "mock"})
        => InScoreDomain(result.risk_score)

\* C6: an application meeting the three thresholds is approved by
\* agent_bricks_underwrite for the requested amount at
\* max(3.5, 8.0 - (credit_score - 600) / 50).
C6_QualifyingApproved ==
    (pc = "returned" /\ engine = "pipeline" /\ MeetsAllThresholds(application_data)) =>
        /\ result.decision = "approved"
        /\ result.approved_amount = application_data.loan_amount
        /\ result.interest_rate =
              Num(IntMax(350, 800 - 2 * (application_data.credit_score - 600)))

\* C7: an application failing a threshold is rejected by
\* agent_bricks_underwrite with approved_amount 0.
C7_FailingRejected ==
    (pc = "returned" /\ engine = "pipeline" /\ ~MeetsAllThresholds(application_data)) =>
        /\ result.decision = "rejected"
        /\ result.approved_amount = 0

\* C8: the stages are invoked in the order extract_documents,
\* analyze_credit_risk, check_compliance, make_loan_decision, each at most
\* once, each only after all earlier ones returned; the fallback runs at
\* most once and only after a stage raised.
C8_StagesInOrder ==
    /\ Len(calls) <= Len(Stages)
    /\ \A i \in 1..Len(calls) : calls[i] = Stages[i]
    /\ \A i \in 1..(Len(calls) - 1) : ResultKey(calls[i]) \in DOMAIN processing_results
    /\ DOMAIN processing_results \subseteq {ResultKey(calls[i]) : i \in 1..Len(calls)}
    /\ fallbacks <= 1
    /\ fallbacks = 1 => StageRaised
    /\ pc = "except" => StageRaised
    /\ (StageRaised /\ pc \in {"finish", "returned"}) => fallbacks = 1

\* C8 witness: three stages returned, the fourth raised, the fallback ran.
C8_Witness ==
    /\ pc = "returned"
    /\ calls = Stages
    /\ Cardinality(DOMAIN processing_results) = 3
    /\ fallbacks = 1

\* C9: the returned risk score is 300 + v * 550 for the credit stage's v,
\* converted once, exactly when all stages completed; after a fallback it is
\* the value of calculate_risk_score, never converted.
C9_RescaleOnlyStageValue ==
    (pc = "returned" /\ engine = "pipeline") =>
        /\ AllStagesCompleted <=> rescaled = 1
        /\ StageRaised <=> rescaled = 0
        /\ AllStagesCompleted =>
              LET v == processing_results["credit_analysis"].data.risk_score
                  rs == result.risk_score IN
                /\ 0 <= v.n /\ v.n <= v.d
                /\ rs.n * v.d = (300 * v.d + 550 * v.n) * rs.d
        /\ StageRaised =>
              LET a == application_data
                  D == IF a.annual_income > 0 THEN a.annual_income ELSE 1
                  N == IF a.annual_income > 0
                       THEN (700 - a.credit_score + 2 * a.debt_to_income_ratio)
                                * a.annual_income + 100 * a.loan_amount
                       ELSE 700 - a.credit_score + 2 * a.debt_to_income_ratio + 100
                  rs == result.risk_score IN
                /\ InScoreDomain(rs)
                /\ (300 * D <= N /\ N <= 850 * D) =>
                      (D % rs.d = 0 /\ rs.n * (D \div rs.d) = N)

\* C9 witness: all four stages completed and the score is 437.5.
C9_Witness ==
    /\ pc = "returned"
    /\ engine = "pipeline"
    /\ AllStagesCompleted
    /\ rescaled = 1
    /\ result.risk_score = [n |-> 875, d |-> 2]

\* C10: execute_query with retry_count 1 makes at most two attempts; only
\* a stale-session failure of the first attempt is followed by another
\* attempt, which reconnects by force; a second stale-session failure and
\* any other failure are raised at once.
C10_RetryOnceOnStaleSession ==
    (credentials_available /\ eq_pc # "idle") =>
        /\ retry_count = 1
        /\ Len(attempts) <= 2
        /\ \A i \in 1..Len(attempts) :
              /\ attempts[i].force <=> i > 1
              /\ i < Len(attempts) => attempts[i].outcome = "stale"
        /\ eq_pc \in {"attempt", "cursor"} =>
              /\ Len(attempts) = attempt
              /\ \A i \in 1..Len(attempts) : attempts[i].outcome = "stale"
        /\ eq_pc = "returned" => attempts[Len(attempts)].outcome = "ok"
        /\ eq_pc = "raised" =>
              /\ Len(attempts) >= 1
              /\ attempts[Len(attempts)].outcome # "ok"
              /\ Len(attempts) = 1 => attempts[1].outcome = "other"

\* C10 witness: the first attempt met a stale session, the second attempt
\* reconnected by force and met one too, and the error was raised.
C10_Witness ==
    /\ eq_pc = "raised"
    /\ Len(attempts) = 2
    /\ attempts[1] = [force |-> FALSE, outcome |-> "stale"]
    /\ attempts[2] = [force |-> TRUE, outcome |-> "stale"]
    /\ Len(connections) >= 2
    /\ connections[1] = "closed"

\* the connections that are open
OpenConnections == {i \in DOMAIN connections : connections[i] = "open"}

SaveReturnedId ==
    /\ op.name = "save_loan_application"
    /\ op_result.kind = "value"

\* C12: when save_loan_application returns an application_id, the table holds
\* exactly one record carrying that id, whether or not the insert was
\* retried, and the id differs from the id of every other call (it is the
\* one generated last, and no record of another call carries it).
C12_SaveWritesExactlyOneRecord ==
    SaveReturnedId =>
        /\ CountWhere(loan_applications, "application_id", op_result.value) = 1
        /\ op_result.value = op.application_id
        /\ op_result.value = next_uuid

\* get_application_status has returned for an id that an earlier save returned
StatusOfSavedId ==
    /\ op.name = "get_application_status"
    /\ op_result.kind = "value"
    /\ \E s \in saved : s.application_id = op.application_id

\* C13: round trip.  When get_application_status(id) returns for an id that
\* save_loan_application(app, decision) returned, the result is a record
\* that carries the id and a timestamp, whose application fields equal
\* those of app and whose decision, decision_reason, approved_amount,
\* interest_rate, risk_score and processing_time_seconds equal the decision,
\* reasoning, approved_amount, interest_rate, risk_score and processing_time
\* of decision.
C13_RoundTrip ==
    StatusOfSavedId =>
        \A s \in saved :
            s.application_id = op.application_id =>
                LET row == op_result.value
                    app == s.application_data
                    d   == s.decision_result
                IN /\ row # NoValue
                   /\ row.application_id = s.application_id
                   /\ "application_timestamp" \in DOMAIN row
                   /\ \A f \in DOMAIN app : row[f] = app[f]
                   /\ row.decision = d.decision
                   /\ row.decision_reason = d.reasoning
                   /\ row.approved_amount = d.approved_amount
                   /\ row.interest_rate = d.interest_rate
                   /\ row.risk_score = d.risk_score
                   /\ row.processing_time_seconds = d.processing_time

\* get_application_status has finished, its query returned a DataFrame, and
\* no stored record carries the identifier asked for
StatusOfUnknownId ==
    /\ op.name = "get_application_status"
    /\ op_result # NoResult
    /\ Len(dfs) = 1
    /\ CountWhere(loan_applications, "application_id", op.application_id) = 0

\* C14: get_application_status called with an identifier that no stored
\* record carries returns None and does not raise, provided its query
\* executed.
C14_UnknownIdGivesNone ==
    StatusOfUnknownId =>
        /\ op_result.kind = "value"
        /\ op_result.value = NoValue
        /\ ~op_result.handled

\* the table holds a record, and the lookup of another identifier came back
C14_Witness ==
    /\ StatusOfUnknownId
    /\ loan_applications # <<>>
    /\ op_result.kind = "value"

\* get_analytics_data has handed something to its caller
AnalyticsFinished ==
    /\ op.name = "get_analytics_data"
    /\ op_result # NoResult

\* the widest window any of the four queries reads (30 days) holds no row
WindowsEmpty == Since(loan_applications, today, 30) = <<>>

\* C17: get_analytics_data never raises, and when the queried windows hold
\* no rows, and also when one of its queries failed, it returns
\* today_applications = 0, approval_rate = 0, avg_processing_time = 0 and
\* avg_credit_score = 0.
C17_AnalyticsNeverRaises ==
    AnalyticsFinished =>
        /\ op_result.kind = "value"
        /\ (op_result.handled \/ WindowsEmpty) =>
              /\ op_result.value.today_applications = 0
              /\ op_result.value.approval_rate = 0
              /\ op_result.value.avg_processing_time = 0
              /\ op_result.value.avg_credit_score = 0

\* the table holds records, three queries answered and the fourth failed
C17_Witness ==
    /\ AnalyticsFinished
    /\ op_result.handled
    /\ Len(dfs) = 3
    /\ loan_applications # <<>>
    /\ dfs[1][1].count > 0

\* get_application_trends has handed something to its caller
TrendsFinished ==
    /\ op.name = "get_application_trends"
    /\ op_result # NoResult

\* the stored records of one day, if the day lies in the window
RecordsOfDay(day, days) ==
    {i \in DOMAIN loan_applications :
        /\ loan_applications[i].application_timestamp = day
        /\ day >= today - days}

\* b holds exactly one bucket for each day of the window that has a record
\* and none for any other day, in strictly ascending date order; a bucket's
\* total is the number of that day's records, and its approved and rejected
\* counts together do not exceed the total
BucketsMatchRecords(b, days) ==
    /\ \A k \in DOMAIN b : b[k].date \in 0..MaxDay
    /\ \A day \in 0..MaxDay :
          Cardinality({k \in DOMAIN b : b[k].date = day})
             = IF RecordsOfDay(day, days) # {} THEN 1 ELSE 0
    /\ \A k \in DOMAIN b : (k + 1 \in DOMAIN b) => b[k].date < b[k + 1].date
    /\ \A k \in DOMAIN b :
          /\ b[k].total_applications = Cardinality(RecordsOfDay(b[k].date, days))
          /\ b[k].approved + b[k].rejected <= b[k].total_applications

ReadOperations ==
    {"get_application_status", "get_analytics_data", "get_application_trends",
     "recent_applications"}

\* C20: stored records are never mutated or removed.  In every step of
\* save_loan_application, get_application_status, get_analytics_data,
\* get_application_trends and the recent-applications query, each record
\* written earlier stays where it is with unchanged fields, and a step of a
\* read operation leaves the whole table unchanged.
C20_RecordsNeverChange ==
    [][/\ Len(loan_applications') >= Len(loan_applications)
       /\ \A i \in DOMAIN loan_applications :
             loan_applications'[i] = loan_applications[i]
       /\ (op.name \in ReadOperations) => loan_applications' = loan_applications]_vars

\* two saves wrote their records and a read operation has answered since
C20_Witness ==
    /\ Len(loan_applications) >= 2
    /\ loan_applications[1].application_id # loan_applications[2].application_id
    /\ op.name \in ReadOperations
    /\ op_result.kind = "value"

\* the submit handler has a decision in hand
HasDecision == result # NoValue

\* C15: in the submit flow save_loan_application is entered only after
\* call_agent_bricks_endpoint has returned the decision and at most once per
\* submission, and the handler goes on to show the decision whatever the save
\* did: a submission that holds a decision and has not yet shown it always
\* has a next step, so it can only end with the decision displayed.
C15_DecisionShownWhateverTheSave ==
    caller = "app" =>
        /\ save_calls <= 1
        /\ (save_calls > 0) => (HasDecision /\ pc \in {"saving", "display", "displayed"})
        /\ (op.name = "save_loan_application")
              => (pc = "saving" /\ save_calls = 1 /\ HasDecision)
        /\ (HasDecision /\ pc # "displayed") => ENABLED Next

\* the save raised, and the decision was displayed without an application id
C15_Witness ==
    /\ pc = "displayed"
    /\ save_calls = 1
    /\ application_id = 0
    /\ faults > 0
    /\ loan_applications = <<>>

\* the checks of the submit handler, written out
PassesValidation ==
    /\ applicant_name \notin {"", "   "}
    /\ age >= 18
    /\ application_data.annual_income > 0
    /\ application_data.credit_score >= 300
    /\ application_data.credit_score <= 850
    /\ application_data.loan_amount >= 1000

\* C16: for a submission, the decision engine is invoked only if the fields
\* pass validation (non-blank name, age >= 18, annual income > 0, credit
\* score in [300, 850], loan amount >= 1000); a submission with a validation
\* error gets no decision and no stored record.
C16_EngineOnlyForValidSubmission ==
    (caller = "app" /\ ~PassesValidation) =>
        /\ pc \in {"startup", "initializing", "idle", "invalid"}
        /\ engine = "none"
        /\ calls = <<>>
        /\ ~HasDecision
        /\ save_calls = 0
        /\ loan_applications = <<>>

\* a form with credentials in place and a loan amount below the minimum
\* was submitted and turned down by the validation
C16_Witness ==
    /\ caller = "app"
    /\ pc = "invalid"
    /\ databricks_connected
    /\ application_data.loan_amount < 1000

\* the connections no manager instance holds
Orphaned ==
    {c \in OpenConnections : \A m \in DOMAIN managers : managers[m] # c}

\* the threads that have returned from their save
Done == {t \in Threads : threads[t].pc = "done"}

\* C19: the store is safe for concurrent callers.  Whatever the interleaving
\* of the requests, first calls of get_databricks_manager and of
\* get_sql_connection included, at most one manager instance is constructed
\* and at most one connection is open; once every request has finished no
\* open connection is left that no manager holds; and every finished save
\* has written one record under an id no other request uses.
C19_SafeForConcurrentCallers ==
    /\ Len(managers) <= 1
    /\ Cardinality(OpenConnections) <= 1
    /\ (Done = Threads) => Orphaned = {}
    /\ \A t \in Done :
          /\ CountWhere(loan_applications, "application_id",
                        threads[t].application_id) = 1
          /\ \A u \in Threads \ {t} :
                threads[u].application_id # threads[t].application_id

-----------------------------------------------------------------------------
(* The engine call of the submit flow *)

\* C21: call_agent_bricks_endpoint returns a decision in every configuration
\* and outcome: with the direct-integration toggle on it never issues the
\* HTTP request; with no endpoint configured, on a non-200 response or on a
\* request exception it returns create_mock_underwriting_decision of the
\* application; and no branch lets an error reach the submit flow.
C21_EndpointAlwaysReturnsDecision ==
    /\ endpoint.route \in {"direct", "direct_import_error"} => endpoint.requests = 0
    /\ (pc = "endpoint_return"
        /\ endpoint.route \in {"no_endpoint", "non200", "request_exception"})
       => result = create_mock_underwriting_decision(application_data)
    /\ endpoint.outcome # "raised"
    /\ (pc = "error" => HasDecision)

-----------------------------------------------------------------------------
(* The schema *)

\* a run of create_schema_if_not_exists is in progress or has just ended
SchemaRunning == op.name = "create_schema_if_not_exists"

\* C22: create_schema_if_not_exists is idempotent.  A run that returns
\* leaves the catalog, the schema and the two tables in place; no step of a
\* run removes an object or changes the records of loan_applications; and
\* once all four objects exist, a further run leaves the warehouse exactly
\* as it was, so any number of runs yields what one run yields.
C22_SchemaIdempotent ==
    /\ []((SchemaRunning /\ op_result.kind = "value") => catalog_objects = AllObjects)
    /\ [][SchemaRunning =>
            /\ loan_applications' = loan_applications
            /\ catalog_objects \subseteq catalog_objects'
            /\ (catalog_objects = AllObjects => catalog_objects' = AllObjects)]_vars

\* a second operation of four statements, a schema run, has returned on a
\* warehouse that held the tables and a stored record before it began
C22_Witness ==
    /\ SchemaRunning
    /\ op_result.kind = "value"
    /\ ops = 2
    /\ queries = 8
    /\ loan_applications # <<>>
    /\ catalog_objects = AllObjects

-----------------------------------------------------------------------------
(* Identifiers *)

\* the names under which an identifier travels in the dictionaries of the run
IdentifierFields == {"application_id", "customer_id"}

\* C23: the pipeline never invents identifiers for the store.  Every stored
\* record carries an identifier that save_loan_application generated (one of
\* 1 .. next_uuid), a running save writes the identifier generated for it,
\* and neither the application dictionary nor the decision handed to the
\* save carries an identifier field, so the customer identifier that
\* agent_bricks_underwrite creates stays inside its report.
C23_StoreOwnsIdentifiers ==
    /\ \A i \in DOMAIN loan_applications :
          loan_applications[i].application_id \in 1..next_uuid
    /\ (op.name = "save_loan_application") =>
          /\ op.application_id = next_uuid
          /\ op.application_id >= 1
          /\ DOMAIN op.application_data \cap IdentifierFields = {}
          /\ DOMAIN op.decision_result \cap IdentifierFields = {}
    /\ (pc = "saving" /\ engine = "pipeline") => op.decision_result = result
    /\ (HasDecision /\ engine = "pipeline")
          => DOMAIN result \cap IdentifierFields = {}

\* a submission the pipeline decided, whose report carries the customer
\* identifier, was stored under the identifier of the save and displayed
C23_Witness ==
    /\ pc = "displayed"
    /\ engine = "pipeline"
    /\ report # NoValue
    /\ report.application_id = "CUST_time"
    /\ Len(loan_applications) = 1
    /\ loan_applications[1].application_id = 1
    /\ application_id = 1

-----------------------------------------------------------------------------
(* The scoring functions *)

\* the calls of calculate_risk_score and make_underwriting_decision so far
ScoringCalls == {i \in DOMAIN scored : scored[i].fn = "scoring"}

\* the calls of create_mock_underwriting_decision so far
MockCalls == {i \in DOMAIN scored : scored[i].fn = "mock"}

\* the four fields the call i was given
FieldsOf(i) ==
    [credit_score         |-> scored[i].application_data.credit_score,
     annual_income        |-> scored[i].application_data.annual_income,
     loan_amount          |-> scored[i].application_data.loan_amount,
     debt_to_income_ratio |-> scored[i].application_data.debt_to_income_ratio]

C25_ApprovedIffThresholds ==
    \A i \in ScoringCalls :
        LET a == FieldsOf(i)
            d == scored[i].decision
        IN /\ d.status \in {"approved", "rejected"}
           /\ d.status = "approved" <=>
                 (/\ a.credit_score >= 650
                  /\ 5 * a.annual_income >= a.loan_amount
                  /\ a.debt_to_income_ratio <= 40)
           /\ d.status = "approved" => d.amount = a.loan_amount

\* an application on all three boundaries was approved for what it asked
C25_Witness ==
    \E i \in ScoringCalls :
        /\ FieldsOf(i) = [credit_score |-> 650, annual_income |-> 40000,
                          loan_amount |-> 200000, debt_to_income_ratio |-> 40]
        /\ scored[i].decision.status = "approved"
        /\ scored[i].decision.amount = 200000

\* the rate 8.0 - (credit_score - 600) / 50 with the floor of 3.5, and its
\* range for the credit scores the form lets through, in hundredths
RateAsClaimed(cs, rate) ==
    LET unclamped == 800 - 2 * (cs - 600) IN
    /\ rate.tag = "num"
    /\ rate.val = (IF unclamped < 350 THEN 350 ELSE unclamped)
    /\ (cs >= 650 /\ cs <= 850) => (rate.val >= 350 /\ rate.val <= 700)

\* C26: the interest rate of every approved decision of the scoring function,
\* and of the mock that repeats its rule, is 8.0 - (credit_score - 600) / 50,
\* or 3.5 where that is lower, so for a credit score from 650 to 850 it lies
\* between 3.5 and 7.0.
C26_ApprovedRateClamped ==
    /\ \A i \in ScoringCalls :
          scored[i].decision.status = "approved" =>
              RateAsClaimed(FieldsOf(i).credit_score, scored[i].decision.rate)
    /\ \A i \in MockCalls :
          scored[i].decision.decision = "approved" =>
              RateAsClaimed(FieldsOf(i).credit_score, scored[i].decision.interest_rate)

\* an approval for credit score 850 at the floor of 3.5, where the formula
\* gives 3.0, from the scoring function and from the mock
C26_Witness ==
    /\ \E i \in ScoringCalls :
          /\ FieldsOf(i).credit_score = 850
          /\ scored[i].decision.status = "approved"
          /\ scored[i].decision.rate = Num(350)
    /\ \E j \in MockCalls :
          /\ FieldsOf(j).credit_score = 850
          /\ scored[j].decision.decision = "approved"
          /\ scored[j].decision.interest_rate = Num(350)

\* the strings of a sequence
Range(seq) == {seq[k] : k \in DOMAIN seq}

\* C27: the reasoning of every rejected scoring decision lists at least one
\* reason after its "Rejected: " prefix, and it names the credit score, the
\* income or the debt-to-income ratio if and only if the application fails
\* that criterion.
C27_RejectionNamesFailedCriteria ==
    \A i \in ScoringCalls :
        LET a == FieldsOf(i)
            d == scored[i].decision
        IN d.status = "rejected" =>
              /\ Len(d.reason) >= 2
              /\ d.reason[1] = "Rejected: "
              /\ "Credit score too low" \in Range(d.reason) <=> a.credit_score < 650
              /\ "Insufficient income relative to loan amount" \in Range(d.reason)
                    <=> 5 * a.annual_income < a.loan_amount
              /\ "High debt-to-income ratio" \in Range(d.reason)
                    <=> a.debt_to_income_ratio > 40

\* a rejection for two criteria names both and not the third
C27_Witness ==
    \E i \in ScoringCalls :
        /\ FieldsOf(i) = [credit_score |-> 750, annual_income |-> 1,
                          loan_amount |-> 200000, debt_to_income_ratio |-> 45]
        /\ scored[i].decision.status = "rejected"
        /\ scored[i].decision.reason =
              <<"Rejected: ", "Insufficient income relative to loan amount",
                "High debt-to-income ratio">>

\* C28: the duplicated decision logic agrees.  For every application,
\* create_mock_underwriting_decision and calculate_risk_score with
\* make_underwriting_decision return the same status, approved amount,
\* interest rate and risk score.
C28_MockAgreesWithScoring ==
    \A i \in MockCalls, j \in ScoringCalls :
        FieldsOf(i) = FieldsOf(j) =>
            /\ scored[i].decision.decision = scored[j].decision.status
            /\ scored[i].decision.approved_amount = scored[j].decision.amount
            /\ scored[i].decision.interest_rate = scored[j].decision.rate
            /\ scored[i].decision.risk_score = scored[j].risk_score

-----------------------------------------------------------------------------
(* The held connection *)

\* C29: get_sql_connection never hands out a connection that it has itself
\* closed.  The connection a cursor is opened on is open, and between
\* calls the manager holds no connection or an open one, also after a forced
\* reconnect whose connection attempts all failed.
C29_NeverHandsOutClosedConnection ==
    /\ eq_pc = "cursor" => connections[sql_connection] = "open"
    /\ sql_connection # 0 => connections[sql_connection] = "open"

-----------------------------------------------------------------------------
(* Demo mode *)

====
